---------------------------- MODULE Spec2Model ----------------------------
(***************************************************************************)
(* Model of the linear-algebra-rs crate: the LinNum scalar (linnum.rs), a  *)
(* value that is either an exact Rational(i128, i128) or a Real(f64), and  *)
(* the dense row-major LinMatrix built on it (matrix.rs).                  *)
(*                                                                         *)
(* Numbers.  i128 values are TLA+ integers; the scalar machine keeps every  *)
(* stored magnitude within MaxAbs and matrix cells are small literals, far *)
(* inside the i128 range, so no i128 operation of a modelled run           *)
(* overflows.  An f64 is modelled by its class and exact value: sign,      *)
(* numerator and denominator of a reduced fraction, with signed zeros, the *)
(* two infinities and NaN.  Rounding is not modelled: a finite float       *)
(* operation returns the exact quotient, sum or product.                   *)
(*                                                                         *)
(* A Rust panic is the outcome Panic; the run stops there.                 *)
(*                                                                         *)
(* Specifications.  Spec follows a caller of the scalar arithmetic and     *)
(* ConvertSpec one of to_real / to_rational; MatrixSpec follows single     *)
(* cells, transpose and determinant, OperatorSpec construction and the     *)
(* operators that return a new matrix, AccessSpec reads and writes of      *)
(* single cells, and UpdateSpec the operations that change a matrix in     *)
(* place.                                                                  *)
(***************************************************************************)
EXTENDS Integers, Sequences, FiniteSets, TLC

VARIABLES
    x,      \* the LinNum variable the caller holds (`self` of the compound forms)
    y,      \* what the last call returned: a LinNum, Unit, an Int, or Panic
    op,     \* the name of the last call
    lhs,    \* its left operand
    rhs,    \* its right operand
    args,   \* the integer arguments of the last constructor call
    mat,    \* the LinMatrix the caller holds
    mop,    \* the name of the last matrix call
    marg,   \* the matrix the last call was applied to
    moth,   \* its other argument: a matrix, a scalar, a position, a slice
    mret,   \* what the last matrix call returned
    nset    \* how many in-place operations the caller has applied to mat

svars == <<x, y, op, lhs, rhs, args>>
mvars == <<mat, mop, marg, moth, mret, nset>>
vars == <<x, y, op, lhs, rhs, args, mat, mop, marg, moth, mret, nset>>

---------------------------------------------------------------------------
(* Bounds of the model. *)

\* Integer literals handed to the constructors range over -MaxInt..MaxInt.
MaxInt == 2
\* Scale factors k of rational(k*n, k*d) range over -MaxK..MaxK, k # 0.
MaxK == 2
\* Largest magnitude of a stored numerator or denominator.
MaxAbs == 5
\* Matrices have up to MaxDim rows and up to MaxDim columns.
MaxDim == 3
\* The caller applies at most MaxSets in-place operations (set, index
\* assignment, compound operators) to a matrix.
MaxSets == 1
\* Fractions converted to Real and back have denominators up to MaxDen.
MaxDen == 100

---------------------------------------------------------------------------
(* Integer helpers. *)

Abs(i) == IF i < 0 THEN -i ELSE i

Sign(i) == IF i < 0 THEN -1 ELSE 1

\* Rust's `/` on i128 truncates toward zero; b # 0.
TDiv(a, b) == Sign(a) * Sign(b) * (Abs(a) \div Abs(b))

RECURSIVE Euclid(_, _)
Euclid(a, b) == IF b = 0 THEN a ELSE Euclid(b, a % b)

\* num_integer::gcd on signed integers: the non-negative gcd, gcd(0, 0) = 0.
gcd(a, b) == Euclid(Abs(a), Abs(b))

---------------------------------------------------------------------------
(* f64.  sgn is 1 or -1; a finite value is n/d with d > 0 in lowest terms  *)
(* (zero is 0/1 with either sign); an infinity is 1/0; NaN is 0/0.         *)

F64(s, n, d) == [sgn |-> s, n |-> n, d |-> d]

NaN == F64(1, 0, 0)

Inf(s) == F64(s, 1, 0)

Zero(s) == F64(s, 0, 1)

FIsNaN(f) == f.n = 0 /\ f.d = 0

FIsInf(f) == f.n # 0 /\ f.d = 0

FIsZero(f) == f.n = 0 /\ f.d # 0

\* The finite float of sign s and magnitude n/d, n >= 0, d > 0.
FNorm(s, n, d) == LET g == gcd(n, d) IN F64(s, n \div g, d \div g)

\* `i as f64` for an i128 within the exactly representable range.
as_f64(i) == F64(Sign(i), Abs(i), 1)

FNeg(f) == IF FIsNaN(f) THEN NaN ELSE F64(-f.sgn, f.n, f.d)

FAdd(a, b) ==
    IF FIsNaN(a) \/ FIsNaN(b) THEN NaN
    ELSE IF FIsInf(a) /\ FIsInf(b) THEN (IF a.sgn = b.sgn THEN a ELSE NaN)
    ELSE IF FIsInf(a) THEN a
    ELSE IF FIsInf(b) THEN b
    ELSE LET num == a.sgn * a.n * b.d + b.sgn * b.n * a.d
             den == a.d * b.d
         IN  IF num = 0
             THEN Zero(IF a.sgn = -1 /\ b.sgn = -1 THEN -1 ELSE 1)
             ELSE FNorm(Sign(num), Abs(num), den)

FSub(a, b) == FAdd(a, FNeg(b))

FMul(a, b) ==
    IF FIsNaN(a) \/ FIsNaN(b) THEN NaN
    ELSE IF (FIsInf(a) /\ FIsZero(b)) \/ (FIsZero(a) /\ FIsInf(b)) THEN NaN
    ELSE IF FIsInf(a) \/ FIsInf(b) THEN Inf(a.sgn * b.sgn)
    ELSE FNorm(a.sgn * b.sgn, a.n * b.n, a.d * b.d)

FDiv(a, b) ==
    IF FIsNaN(a) \/ FIsNaN(b) THEN NaN
    ELSE IF (FIsInf(a) /\ FIsInf(b)) \/ (FIsZero(a) /\ FIsZero(b)) THEN NaN
    ELSE IF FIsInf(a) \/ FIsZero(b) THEN Inf(a.sgn * b.sgn)
    ELSE IF FIsInf(b) THEN Zero(a.sgn * b.sgn)
    ELSE FNorm(a.sgn * b.sgn, a.n * b.d, a.d * b.n)

\* f64::abs
FAbs(f) == IF FIsNaN(f) THEN NaN ELSE F64(1, f.n, f.d)

\* `<` on f64: false when an operand is NaN.
FLt(a, b) ==
    /\ ~FIsNaN(a)
    /\ ~FIsNaN(b)
    /\ a # b
    /\ IF FIsInf(a) THEN a.sgn = -1
       ELSE IF FIsInf(b) THEN b.sgn = 1
       ELSE a.sgn * a.n * b.d < b.sgn * b.n * a.d

\* f64::round: to the nearest integer, halves away from zero.
round(f) ==
    IF FIsNaN(f) \/ FIsInf(f) THEN f
    ELSE F64(f.sgn, (2 * f.n + f.d) \div (2 * f.d), 1)

\* `f as i128` for NaN (0) and for a float within the i128 range
\* (truncation); the machine does not convert infinities.
as_i128(f) == IF FIsNaN(f) THEN 0 ELSE f.sgn * (f.n \div f.d)

\* `==` on f64: NaN equals nothing, the two zeros are equal.
FEq(a, b) ==
    /\ ~FIsNaN(a)
    /\ ~FIsNaN(b)
    /\ (a = b \/ (FIsZero(a) /\ FIsZero(b)))

---------------------------------------------------------------------------
(* LinNum. *)

Rational(n, d) == [tag |-> "Rational", num |-> n, den |-> d]

Real(v) == [tag |-> "Real", val |-> v]

\* The outcome of a call that panicked.
Panic == [tag |-> "Panic"]

\* The return value of a call that returns ().
Unit == [tag |-> "Unit"]

\* An i128 returned to the caller.
Int128(i) == [tag |-> "Int", v |-> i]

\* new_rational storing its arguments without dividing by the gcd.
new_rational_unreduced(numerator, denominator) ==
    IF gcd(numerator, denominator) = 0
    THEN Panic
    ELSE Rational(numerator, denominator)

new_rational(numerator, denominator) ==
    LET g == gcd(numerator, denominator)
    IN  IF g = 0
        THEN Panic      \* numerator / 0: attempt to divide by zero
        ELSE Rational(TDiv(numerator, g), TDiv(denominator, g))

new_real(value) == Real(value)

is_rational(s) == s.tag = "Rational"

is_real(s) == s.tag = "Real"

to_real(s) ==
    IF is_rational(s)
    THEN new_real(FDiv(as_f64(s.num), as_f64(s.den)))
    ELSE s

\* The largest denominator to_rational tries: `for i in 2..=100`.
MaxDenominator == 100

\* The body of the loop of to_rational for the denominator i: the numerator,
\* denominator and error kept after it.
ToRationalStep(val, numerator, denominator, error, i) ==
    LET new_numerator == as_i128(round(FMul(val, as_f64(i))))
        new_denominator == i
        new_error ==
            FAbs(FSub(val, FDiv(as_f64(new_numerator), as_f64(new_denominator))))
    IN  IF FLt(new_error, error)
        THEN <<new_numerator, new_denominator, new_error>>
        ELSE <<numerator, denominator, error>>

\* The loop `for i in first..=last` of to_rational, from what was kept before
\* it to what is kept after it.  The range is run in two halves, first..=mid
\* and, once that half has a result, mid+1..=last: the body runs for first,
\* first + 1, ..., last in that order, and the evaluation stays shallow.  A
\* kept denominator is one of 1..=last, so the test on it always passes.
RECURSIVE ToRationalLoop(_, _, _, _)
ToRationalLoop(val, kept, first, last) ==
    IF first > last THEN kept
    ELSE IF first = last
    THEN ToRationalStep(val, kept[1], kept[2], kept[3], first)
    ELSE LET mid == (first + last) \div 2
             half == ToRationalLoop(val, kept, first, mid)
         IN  IF half[2] >= 1
             THEN ToRationalLoop(val, half, mid + 1, last)
             ELSE half

\* to_rational with its search ended at `last`.
ToRationalUpTo(s, last) ==
    IF is_real(s)
    THEN LET val == s.val
             numerator == as_i128(round(val))
             denominator == 1
             error == FAbs(FSub(val, as_f64(numerator)))
             kept == ToRationalLoop(val, <<numerator, denominator, error>>,
                                    2, last)
         IN  new_rational(kept[1], kept[2])
    ELSE s

\* A variant of to_rational that tries the denominators up to 10 only.
to_rational_up_to_ten(s) == ToRationalUpTo(s, 10)

to_rational(s) == ToRationalUpTo(s, MaxDenominator)

from_i128(value) == new_rational(value, 1)

from_f64(value) == new_real(value)

\* From<LinNum> for f64.
into_f64(s) ==
    IF is_rational(s) THEN FDiv(as_f64(s.num), as_f64(s.den)) ELSE s.val

\* Derived PartialEq of LinNum: same variant and equal fields.
LinNumEq(a, b) ==
    \/ is_rational(a) /\ is_rational(b) /\ a.num = b.num /\ a.den = b.den
    \/ is_real(a) /\ is_real(b) /\ FEq(a.val, b.val)


\* From<LinNum> for i128, for a Real that is finite or NaN (`as` maps NaN to 0).
into_i128(s) ==
    IF is_rational(s)
    THEN IF s.den = 0
         THEN Panic     \* numer / 0: attempt to divide by zero
         ELSE Int128(TDiv(s.num, s.den))
    ELSE IF FIsNaN(s.val)
         THEN Int128(0)
         ELSE Int128(s.val.sgn * (s.val.n \div s.val.d))

\* impl Add for LinNum.  A panicking operand expression aborts the whole one.
add(a, b) ==
    IF a = Panic \/ b = Panic THEN Panic
    ELSE IF is_rational(a) /\ is_rational(b)
    THEN new_rational(a.num * b.den + b.num * a.den, a.den * b.den)
    ELSE IF is_real(a) /\ is_rational(b)
    THEN new_real(FAdd(a.val, FDiv(as_f64(b.num), as_f64(b.den))))
    ELSE IF is_rational(a) /\ is_real(b)
    THEN new_real(FAdd(FDiv(as_f64(a.num), as_f64(a.den)), b.val))
    ELSE new_real(FAdd(a.val, b.val))

\* impl Sub for LinNum.
sub(a, b) ==
    IF a = Panic \/ b = Panic THEN Panic
    ELSE IF is_rational(a) /\ is_rational(b)
    THEN new_rational(a.num * b.den - b.num * a.den, a.den * b.den)
    ELSE IF is_real(a) /\ is_rational(b)
    THEN new_real(FSub(a.val, FDiv(as_f64(b.num), as_f64(b.den))))
    ELSE IF is_rational(a) /\ is_real(b)
    THEN new_real(FSub(FDiv(as_f64(a.num), as_f64(a.den)), b.val))
    ELSE new_real(FSub(a.val, b.val))

\* mul whose Rational/Real arm keeps the Rational operand instead of promoting.
mul_keeps_rational(a, b) ==
    IF a = Panic \/ b = Panic THEN Panic
    ELSE IF is_rational(a) /\ is_rational(b)
    THEN new_rational(a.num * b.num, a.den * b.den)
    ELSE IF is_real(a) /\ is_real(b)
    THEN new_real(FMul(a.val, b.val))
    ELSE IF is_real(a) /\ is_rational(b)
    THEN new_real(FMul(a.val, FDiv(as_f64(b.num), as_f64(b.den))))
    ELSE new_rational(a.num, a.den)

\* impl Mul for LinNum.
mul(a, b) ==
    IF a = Panic \/ b = Panic THEN Panic
    ELSE IF is_rational(a) /\ is_rational(b)
    THEN new_rational(a.num * b.num, a.den * b.den)
    ELSE IF is_real(a) /\ is_real(b)
    THEN new_real(FMul(a.val, b.val))
    ELSE IF is_real(a) /\ is_rational(b)
    THEN new_real(FMul(a.val, FDiv(as_f64(b.num), as_f64(b.den))))
    ELSE new_real(FMul(FDiv(as_f64(a.num), as_f64(a.den)), b.val))

\* div whose Rational/Rational arm multiplies straight across, as mul does.
div_uninverted(a, b) ==
    IF a = Panic \/ b = Panic THEN Panic
    ELSE IF is_rational(a) /\ is_rational(b)
    THEN new_rational(a.num * b.num, a.den * b.den)
    ELSE IF is_real(a) /\ is_real(b)
    THEN new_real(FDiv(a.val, b.val))
    ELSE IF is_real(a) /\ is_rational(b)
    THEN new_real(FDiv(a.val, FDiv(as_f64(b.num), as_f64(b.den))))
    ELSE new_real(FDiv(FDiv(as_f64(a.num), as_f64(a.den)), b.val))

\* impl Div for LinNum.
div(a, b) ==
    IF a = Panic \/ b = Panic THEN Panic
    ELSE IF is_rational(a) /\ is_rational(b)
    THEN new_rational(a.num * b.den, a.den * b.num)
    ELSE IF is_real(a) /\ is_real(b)
    THEN new_real(FDiv(a.val, b.val))
    ELSE IF is_real(a) /\ is_rational(b)
    THEN new_real(FDiv(a.val, FDiv(as_f64(b.num), as_f64(b.den))))
    ELSE new_real(FDiv(FDiv(as_f64(a.num), as_f64(a.den)), b.val))

\* The compound forms: the value stored into *self.
add_assign(self, other) == add(self, other)

sub_assign(self, other) == sub(self, other)

mul_assign(self, other) == mul(self, other)

div_assign(self, other) == div(self, other)

---------------------------------------------------------------------------
(* LinMatrix: rows, cols and the flat row-major Vec<LinNum> data.  Rows and *)
(* columns are numbered from 0 as in the source; data is a sequence, so    *)
(* the cell of flat index k is data[k + 1].                                *)

\* macro lnum!
lnum(value) == new_real(value)

LinMatrix(rows, cols, data) ==
    [tag |-> "LinMatrix", rows |-> rows, cols |-> cols, data |-> data]

\* Result<_, MatrixError>
Ok(v) == IF v = Panic THEN Panic ELSE [tag |-> "Ok", v |-> v]

Err(e) == [tag |-> "Err", e |-> e]

DimensionMismatch == "DimensionMismatch"

new(rows, cols) ==
    LinMatrix(rows, cols, [k \in 1..(rows * cols) |-> new_real(Zero(1))])

dim(self) == <<self.rows, self.cols>>

\* self.data[row * self.cols + col]: Vec indexing panics past the end.
get(self, row, col) ==
    IF self = Panic THEN Panic
    ELSE IF row * self.cols + col >= Len(self.data) THEN Panic
    ELSE self.data[row * self.cols + col + 1]

\* A variant of set that grows the storage to reach a position past its end.
set_growing(self, row, col, value) ==
    IF self = Panic \/ value = Panic THEN Panic
    ELSE IF row * self.cols + col >= Len(self.data)
    THEN [self EXCEPT !.data = Append(self.data, value)]
    ELSE [self EXCEPT !.data[row * self.cols + col + 1] = value]

\* self.data[row * self.cols + col] = value; the matrix after the call.
set(self, row, col, value) ==
    IF self = Panic \/ value = Panic THEN Panic
    ELSE IF row * self.cols + col >= Len(self.data) THEN Panic
    ELSE [self EXCEPT !.data[row * self.cols + col + 1] = value]

\* impl Index<(usize, usize)> for LinMatrix
index(self, row, col) ==
    IF self = Panic THEN Panic
    ELSE IF row * self.cols + col >= Len(self.data) THEN Panic
    ELSE self.data[row * self.cols + col + 1]

\* The two loops of from: row i of data, element j of that row.
RECURSIVE FromLoop(_, _, _, _)
FromLoop(data, matrix, i, j) ==
    IF i = Len(data) THEN matrix
    ELSE IF j = Len(data[i + 1]) THEN FromLoop(data, matrix, i + 1, 0)
    ELSE FromLoop(data, set(matrix, i, j, data[i + 1][j + 1]), i, j + 1)

\* LinMatrix::from(&[&[LinNum]]); data[0] panics on an empty slice.
from(data) ==
    IF Len(data) = 0 THEN Panic
    ELSE FromLoop(data, new(Len(data), Len(data[1])), 0, 0)

\* The loops of transpose, flattened: step t is i = t / cols, j = t % cols.
RECURSIVE TransposeLoop(_, _, _)
TransposeLoop(self, result, t) ==
    IF t = self.rows * self.cols THEN result
    ELSE LET i == t \div self.cols
             j == t % self.cols
         IN  TransposeLoop(self, set(result, j, i, get(self, i, j)), t + 1)

\* The same loops reading the source cell at (j, i).
RECURSIVE TransposeLoopSwapped(_, _, _)
TransposeLoopSwapped(self, result, t) ==
    IF t = self.rows * self.cols THEN result
    ELSE LET i == t \div self.cols
             j == t % self.cols
         IN  TransposeLoopSwapped(self, set(result, j, i, get(self, j, i)), t + 1)

\* transpose reading the source cell at (j, i) instead of (i, j).
transpose_swapped(self) ==
    TransposeLoopSwapped(self, new(self.cols, self.rows), 0)

transpose(self) == TransposeLoop(self, new(self.cols, self.rows), 0)

\* The loops that fill the minor of column i: step t is j = 1 + t / cols,
\* k = t % cols; column i itself is skipped.
RECURSIVE SubMatrixLoop(_, _, _, _)
SubMatrixLoop(self, i, sub_matrix, t) ==
    IF t = (self.rows - 1) * self.cols THEN sub_matrix
    ELSE LET j == 1 + (t \div self.cols)
             k == t % self.cols
         IN  IF k < i
             THEN SubMatrixLoop(self, i, set(sub_matrix, j - 1, k, get(self, j, k)), t + 1)
             ELSE IF k > i
             THEN SubMatrixLoop(self, i, set(sub_matrix, j - 1, k - 1, get(self, j, k)), t + 1)
             ELSE SubMatrixLoop(self, i, sub_matrix, t + 1)

\* The minor allocated with one row less but all the columns.
sub_matrix_wide(self, i) ==
    SubMatrixLoop(self, i, new(self.rows - 1, self.cols), 0)

\* The minor of row 0 and column i, as determinant builds it.
sub_matrix(self, i) ==
    SubMatrixLoop(self, i, new(self.rows - 1, self.cols - 1), 0)

\* The sign with the parities exchanged.
sign_flipped(i) == IF i % 2 = 0 THEN as_f64(-1) ELSE as_f64(1)

\* let sign = if i % 2 == 0 { 1.0 } else { -1.0 }
sign(i) == IF i % 2 = 0 THEN as_f64(1) ELSE as_f64(-1)

\* The cofactor loop of determinant from column i on, det accumulated so
\* far; `?` returns the Err of a minor at once.
RECURSIVE determinant(_), CofactorLoop(_, _, _)
CofactorLoop(self, det, i) ==
    IF det = Panic THEN Panic
    ELSE IF i = self.cols THEN Ok(det)
    ELSE LET minor == determinant(sub_matrix(self, i))
         IN  IF minor = Panic THEN Panic
             ELSE IF minor.tag = "Err" THEN minor
             ELSE CofactorLoop(self,
                               add(det, mul(mul(get(self, 0, i), minor.v), lnum(sign(i)))),
                               i + 1)

determinant(self) ==
    IF self.rows # self.cols THEN Err(DimensionMismatch)
    ELSE IF self.rows = 1 THEN Ok(get(self, 0, 0))
    ELSE IF self.rows = 2
    THEN Ok(sub(mul(index(self, 0, 0), index(self, 1, 1)),
                mul(index(self, 0, 1), index(self, 1, 0))))
    ELSE CofactorLoop(self, new_real(Zero(1)), 0)

\* Every minor built while determinant(self) runs, those of the recursive
\* calls included.
RECURSIVE MinorsBuilt(_)
MinorsBuilt(self) ==
    IF self.rows # self.cols \/ self.rows <= 2 THEN {}
    ELSE UNION {{sub_matrix(self, i)} \cup MinorsBuilt(sub_matrix(self, i)) :
                i \in 0..(self.cols - 1)}

\* Derived PartialEq of LinMatrix: rows, cols and data (Vec) compare equal.
LinMatrixEq(a, b) ==
    /\ a.rows = b.rows
    /\ a.cols = b.cols
    /\ Len(a.data) = Len(b.data)
    /\ \A k \in 1..Len(a.data) : LinNumEq(a.data[k], b.data[k])

\* The loops of the elementwise operators, flattened: step t is
\* i = t / cols, j = t % cols.
RECURSIVE AddLoop(_, _, _, _)
AddLoop(self, other, result, t) ==
    IF result = Panic THEN Panic
    ELSE IF t = self.rows * self.cols THEN result
    ELSE LET i == t \div self.cols
             j == t % self.cols
         IN  AddLoop(self, other,
                     set(result, i, j, add(get(self, i, j), get(other, i, j))),
                     t + 1)

\* A variant of impl Add that compares only the row counts.
matrix_add_rows_only(self, other) ==
    IF self.rows # other.rows THEN Err(DimensionMismatch)
    ELSE Ok(AddLoop(self, other, new(self.rows, self.cols), 0))

\* impl Add for LinMatrix
matrix_add(self, other) ==
    IF self.rows # other.rows \/ self.cols # other.cols
    THEN Err(DimensionMismatch)
    ELSE Ok(AddLoop(self, other, new(self.rows, self.cols), 0))

RECURSIVE SubLoop(_, _, _, _)
SubLoop(self, other, result, t) ==
    IF result = Panic THEN Panic
    ELSE IF t = self.rows * self.cols THEN result
    ELSE LET i == t \div self.cols
             j == t % self.cols
         IN  SubLoop(self, other,
                     set(result, i, j, sub(get(self, i, j), get(other, i, j))),
                     t + 1)

\* impl Sub for LinMatrix
matrix_sub(self, other) ==
    IF self.rows # other.rows \/ self.cols # other.cols
    THEN Err(DimensionMismatch)
    ELSE Ok(SubLoop(self, other, new(self.rows, self.cols), 0))

RECURSIVE MulScalarLoop(_, _, _, _)
MulScalarLoop(self, other, result, t) ==
    IF result = Panic THEN Panic
    ELSE IF t = self.rows * self.cols THEN result
    ELSE LET i == t \div self.cols
             j == t % self.cols
         IN  MulScalarLoop(self, other,
                           set(result, i, j, mul(get(self, i, j), other)),
                           t + 1)

\* impl Mul<LinNum> for LinMatrix
matrix_mul_scalar(self, other) ==
    MulScalarLoop(self, other, new(self.rows, self.cols), 0)

RECURSIVE DivScalarLoop(_, _, _, _)
DivScalarLoop(self, other, result, t) ==
    IF result = Panic THEN Panic
    ELSE IF t = self.rows * self.cols THEN result
    ELSE LET i == t \div self.cols
             j == t % self.cols
         IN  DivScalarLoop(self, other,
                           set(result, i, j, div(get(self, i, j), other)),
                           t + 1)

\* impl Div<LinNum> for LinMatrix
matrix_div_scalar(self, other) ==
    DivScalarLoop(self, other, new(self.rows, self.cols), 0)

\* The innermost loop of impl Mul<LinMatrix>: sum += self(i, k) * other(k, j).
RECURSIVE DotLoop(_, _, _, _, _, _)
DotLoop(self, other, i, j, sum, k) ==
    IF sum = Panic THEN Panic
    ELSE IF k = self.cols THEN sum
    ELSE DotLoop(self, other, i, j,
                 add_assign(sum, mul(get(self, i, k), get(other, k, j))), k + 1)

\* Its two outer loops, flattened: step t is i = t / other.cols,
\* j = t % other.cols; the accumulator of every cell starts at zero.
RECURSIVE MulLoop(_, _, _, _, _)
MulLoop(zero, self, other, result, t) ==
    IF result = Panic THEN Panic
    ELSE IF t = self.rows * other.cols THEN result
    ELSE LET i == t \div other.cols
             j == t % other.cols
         IN  MulLoop(zero, self, other,
                     set(result, i, j, DotLoop(self, other, i, j, zero, 0)),
                     t + 1)

\* A variant of impl Mul<LinMatrix> whose accumulator starts at the exact
\* Rational zero.
matrix_mul_rational_sum(self, other) ==
    IF self.cols # other.rows THEN Err(DimensionMismatch)
    ELSE Ok(MulLoop(new_rational(0, 1), self, other,
                    new(self.rows, other.cols), 0))

\* impl Mul<LinMatrix> for LinMatrix
matrix_mul(self, other) ==
    IF self.cols # other.rows THEN Err(DimensionMismatch)
    ELSE Ok(MulLoop(new_real(Zero(1)), self, other,
                    new(self.rows, other.cols), 0))

\* A panic that unwinds out of a method of a matrix borrowed mutably: self is
\* the matrix as the caller finds it afterwards.
Unwound(self) == [tag |-> "Unwound", self |-> self]

\* The loops of the compound operators, flattened: step t is i = t / cols,
\* j = t % cols, on self as the steps before it left it.
RECURSIVE AddAssignLoop(_, _, _)
AddAssignLoop(self, other, t) ==
    IF t = self.rows * self.cols THEN self
    ELSE LET i == t \div self.cols
             j == t % self.cols
             next == set(self, i, j, add(get(self, i, j), get(other, i, j)))
         IN  IF next = Panic THEN Unwound(self)
             ELSE AddAssignLoop(next, other, t + 1)

\* A variant of impl AddAssign that compares the shapes after its loop.
matrix_add_assign_late(self, other) ==
    LET done == AddAssignLoop(self, other, 0)
    IN  IF done.tag = "Unwound" THEN done
        ELSE IF other.rows # self.rows \/ other.cols # self.cols
        THEN Unwound(done)
        ELSE done

\* impl AddAssign for LinMatrix
matrix_add_assign(self, other) ==
    IF other.rows # self.rows \/ other.cols # self.cols THEN Unwound(self)
    ELSE AddAssignLoop(self, other, 0)

RECURSIVE SubAssignLoop(_, _, _)
SubAssignLoop(self, other, t) ==
    IF t = self.rows * self.cols THEN self
    ELSE LET i == t \div self.cols
             j == t % self.cols
             next == set(self, i, j, sub(get(self, i, j), get(other, i, j)))
         IN  IF next = Panic THEN Unwound(self)
             ELSE SubAssignLoop(next, other, t + 1)

\* impl SubAssign for LinMatrix
matrix_sub_assign(self, other) ==
    IF other.rows # self.rows \/ other.cols # self.cols THEN Unwound(self)
    ELSE SubAssignLoop(self, other, 0)

RECURSIVE MulAssignLoop(_, _, _)
MulAssignLoop(self, other, t) ==
    IF t = self.rows * self.cols THEN self
    ELSE LET i == t \div self.cols
             j == t % self.cols
             next == set(self, i, j, mul(get(self, i, j), other))
         IN  IF next = Panic THEN Unwound(self)
             ELSE MulAssignLoop(next, other, t + 1)

\* impl MulAssign<LinNum> for LinMatrix
matrix_mul_assign(self, other) == MulAssignLoop(self, other, 0)

RECURSIVE DivAssignLoop(_, _, _)
DivAssignLoop(self, other, t) ==
    IF t = self.rows * self.cols THEN self
    ELSE LET i == t \div self.cols
             j == t % self.cols
             next == set(self, i, j, div(get(self, i, j), other))
         IN  IF next = Panic THEN Unwound(self)
             ELSE DivAssignLoop(next, other, t + 1)

\* impl DivAssign<LinNum> for LinMatrix
matrix_div_assign(self, other) == DivAssignLoop(self, other, 0)

\* impl IndexMut<(usize, usize)> for LinMatrix, assigned through:
\* self[(row, col)] = value; the matrix after the call.
index_mut(self, row, col, value) ==
    IF self = Panic \/ value = Panic THEN Panic
    ELSE IF row * self.cols + col >= Len(self.data) THEN Panic
    ELSE [self EXCEPT !.data[row * self.cols + col + 1] = value]

---------------------------------------------------------------------------
(* The scalar machine: a caller holding one LinNum and applying the public *)
(* operations of linnum.rs to it.                                          *)

Ints == -MaxInt..MaxInt

\* The floats handed to new_real: +-n/d for small n and d.
FloatInputs == {FNorm(s, n, d) : s \in {1, -1}, n \in 0..MaxInt, d \in 1..MaxInt}

\* The scalars a caller builds: rational(n, d) with d # 0, and real(v).
Operands ==
    {new_rational(n, d) : n \in Ints, d \in Ints \ {0}}
        \cup {new_real(v) : v \in FloatInputs}

\* The stored magnitudes of s stay within the bound of the model.
InRange(s) ==
    /\ is_rational(s) => Abs(s.num) <= MaxAbs /\ Abs(s.den) <= MaxAbs
    /\ is_real(s) => s.val.n <= MaxAbs /\ s.val.d <= MaxAbs

\* The program has not panicked.
Running == y # Panic

ScalarInit ==
    /\ x \in Operands
    /\ y = Unit
    /\ op = "init"
    /\ lhs = Unit
    /\ rhs = Unit
    /\ args = <<>>

\* x = LinNum::new_rational(n, d)
NewRational(n, d) ==
    /\ Running
    /\ UNCHANGED mvars
    /\ x' = new_rational(n, d)
    /\ y' = Unit
    /\ op' = "new_rational"
    /\ args' = <<n, d>>
    /\ lhs' = Unit
    /\ rhs' = Unit

\* y = LinNum::new_rational(k * n, k * d), for the n and d x was just built from
NewRationalScaled(k) ==
    /\ Running
    /\ UNCHANGED mvars
    /\ op = "new_rational"
    /\ y' = new_rational(k * args[1], k * args[2])
    /\ op' = "new_rational_scaled"
    /\ args' = <<args[1], args[2], k>>
    /\ lhs' = Unit
    /\ rhs' = Unit
    /\ UNCHANGED x

\* x = LinNum::new_real(v)
NewReal(v) ==
    /\ Running
    /\ UNCHANGED mvars
    /\ x' = new_real(v)
    /\ y' = Unit
    /\ op' = "new_real"
    /\ args' = <<>>
    /\ lhs' = Unit
    /\ rhs' = Unit

\* x = n.into()
FromI128(n) ==
    /\ Running
    /\ UNCHANGED mvars
    /\ x' = from_i128(n)
    /\ y' = Unit
    /\ op' = "from_i128"
    /\ args' = <<n>>
    /\ lhs' = Unit
    /\ rhs' = Unit

\* A binary operator applied to x and o; x is Copy and stays as it was.
Binary(name, result, o) ==
    /\ Running
    /\ UNCHANGED mvars
    /\ InRange(result)
    /\ y' = result
    /\ op' = name
    /\ lhs' = x
    /\ rhs' = o
    /\ args' = <<>>
    /\ UNCHANGED x

Add(o) == Binary("add", add(x, o), o)

Sub(o) == Binary("sub", sub(x, o), o)

Mul(o) == Binary("mul", mul(x, o), o)

Div(o) == Binary("div", div(x, o), o)

\* A compound operator: x is replaced unless the right-hand side panicked.
Compound(name, result, o) ==
    /\ Running
    /\ UNCHANGED mvars
    /\ InRange(result)
    /\ x' = IF result = Panic THEN x ELSE result
    /\ y' = IF result = Panic THEN Panic ELSE Unit
    /\ op' = name
    /\ lhs' = x
    /\ rhs' = o
    /\ args' = <<>>

AddAssign(o) == Compound("add_assign", add_assign(x, o), o)

SubAssign(o) == Compound("sub_assign", sub_assign(x, o), o)

MulAssign(o) == Compound("mul_assign", mul_assign(x, o), o)

DivAssign(o) == Compound("div_assign", div_assign(x, o), o)

\* y = x.to_real()
ToReal ==
    /\ Running
    /\ UNCHANGED mvars
    /\ y' = to_real(x)
    /\ op' = "to_real"
    /\ lhs' = x
    /\ rhs' = Unit
    /\ args' = <<>>
    /\ UNCHANGED x

\* y = i128::from(x)
IntoI128 ==
    /\ Running
    /\ UNCHANGED mvars
    /\ is_real(x) => ~FIsInf(x.val)
    /\ y' = into_i128(x)
    /\ op' = "into_i128"
    /\ lhs' = x
    /\ rhs' = Unit
    /\ args' = <<>>
    /\ UNCHANGED x

\* y = x.to_rational()
ToRational ==
    /\ Running
    /\ UNCHANGED mvars
    /\ is_real(x) => ~FIsInf(x.val)
    /\ y' = to_rational(x)
    /\ op' = "to_rational"
    /\ lhs' = x
    /\ rhs' = Unit
    /\ args' = <<>>
    /\ UNCHANGED x

\* y = y.to_rational(), on the Real x.to_real() just returned
ToRationalBack ==
    /\ Running
    /\ op = "to_real"
    /\ ~FIsInf(y.val)
    /\ y' = to_rational(y)
    /\ op' = "round_trip"
    /\ UNCHANGED <<x, lhs, rhs, args>>
    /\ UNCHANGED mvars

\* The scalars whose conversions are followed: the fractions n/d with d up
\* to MaxDen, and real(1.5) of the crate's test.
ConvertInputs ==
    {new_rational(n, d) : n \in -MaxAbs..MaxAbs, d \in 1..MaxDen}
        \cup {new_real(FNorm(1, 3, 2))}
        \cup {new_real(v) : v \in FloatInputs}

ConvertInit ==
    /\ x \in ConvertInputs
    /\ y = Unit
    /\ op = "init"
    /\ lhs = Unit
    /\ rhs = Unit
    /\ args = <<>>

\* The conversions between the two representations.
ConvertNext ==
    \/ ToReal
    \/ ToRational
    \/ ToRationalBack

Next ==
    \/ \E n \in Ints, d \in Ints \ {0} : NewRational(n, d)
    \/ \E k \in (-MaxK..MaxK) \ {0} : NewRationalScaled(k)
    \/ \E v \in FloatInputs : NewReal(v)
    \/ \E n \in Ints : FromI128(n)
    \/ \E o \in Operands : Add(o)
    \/ \E o \in Operands : Sub(o)
    \/ \E o \in Operands : Mul(o)
    \/ \E o \in Operands : Div(o)
    \/ \E o \in Operands : AddAssign(o)
    \/ \E o \in Operands : SubAssign(o)
    \/ \E o \in Operands : MulAssign(o)
    \/ \E o \in Operands : DivAssign(o)
    \/ ToReal
    \/ IntoI128

---------------------------------------------------------------------------
(* The matrix machine: a caller holding one LinMatrix.                     *)

\* The cell of value v in a literal: lnum!(v as float) or LinNum::from(v).
Cell(kind, v) == IF kind = "Real" THEN lnum(as_f64(v)) ELSE from_i128(v)

\* The rows x cols literal 1, 2, 3, ... in row-major order, as in the tests
\* and main.rs ([1, 2], [3, 4] and [1, 2, 3], [4, 5, 6], [7, 8, 9]).
Literal(kind, rows, cols) ==
    [i \in 1..rows |-> [j \in 1..cols |-> Cell(kind, (i - 1) * cols + j)]]

\* The same literal with row i written with len elements.
Ragged(kind, rows, cols, i, len) ==
    [r \in 1..rows |->
        [j \in 1..(IF r = i THEN len ELSE cols) |->
            Cell(kind, (r - 1) * cols + j)]]

\* The slices handed to LinMatrix::from: rectangular ones (of zero columns
\* too), the empty slice, and slices with one row an element short or long.
RowInputs ==
    {Literal(kind, r, c) :
        kind \in {"Real", "Rational"}, r \in 1..MaxDim, c \in 0..MaxDim}
    \cup {<<>>}
    \cup UNION {{Ragged(kind, r, c, i, c - 1), Ragged(kind, r, c, i, c + 1)} :
                 kind \in {"Real", "Rational"},
                 r \in 2..MaxDim, c \in 1..MaxDim, i \in 1..MaxDim}

\* The values the caller stores into single cells.
SetValues == {from_i128(0), from_i128(-1), lnum(as_f64(2)), new_rational(1, 2)}

\* The matrices handed to the operators as their right operand.
OtherMatrices ==
    {from(Literal(kind, r, c)) :
        kind \in {"Real", "Rational"}, r \in 1..MaxDim, c \in 1..MaxDim}
    \cup {new(r, c) : r \in 0..MaxDim, c \in 0..MaxDim}

\* The scalars handed to the operators as their right operand.
OtherScalars == {from_i128(2), lnum(FNorm(1, 1, 2)), new_rational(-1, 2)}

\* The arguments of a call, as the log keeps them.
At(row, col) == [tag |-> "At", row |-> row, col |-> col]

Rows(data) == [tag |-> "Rows", data |-> data]

Shape(rows, cols) == [tag |-> "Shape", rows |-> rows, cols |-> cols]

MatrixInit ==
    /\ \/ \E kind \in {"Real", "Rational"}, r \in 1..MaxDim, c \in 1..MaxDim :
            mat = from(Literal(kind, r, c))
       \/ \E r \in 0..MaxDim, c \in 0..MaxDim : mat = new(r, c)
    /\ mop = "init"
    /\ marg = Unit
    /\ moth = Unit
    /\ mret = Unit
    /\ nset = 0

\* The caller has not constructed its matrix yet.
NoMatrix ==
    /\ mat = Unit
    /\ mop = "init"
    /\ marg = Unit
    /\ moth = Unit
    /\ mret = Unit
    /\ nset = 0

\* The caller starts from a matrix literal.
LiteralInit ==
    /\ \E kind \in {"Real", "Rational"}, r \in 1..MaxDim, c \in 1..MaxDim :
            mat = from(Literal(kind, r, c))
    /\ mop = "init"
    /\ marg = Unit
    /\ moth = Unit
    /\ mret = Unit
    /\ nset = 0

\* The program has not panicked.
MatrixRunning == mret # Panic

\* A matrix that was passed by value: the caller no longer holds it.
Moved == [tag |-> "Moved"]

\* The caller holds a matrix.
Holding == mat.tag = "LinMatrix"

\* mat = LinMatrix::new(rows, cols)
New(rows, cols) ==
    /\ MatrixRunning
    /\ mat = Unit
    /\ mat' = new(rows, cols)
    /\ mret' = new(rows, cols)
    /\ mop' = "new"
    /\ marg' = Unit
    /\ moth' = Shape(rows, cols)
    /\ UNCHANGED nset
    /\ UNCHANGED svars

\* mat = LinMatrix::from(data)
From(data) ==
    /\ MatrixRunning
    /\ mat = Unit
    /\ mat' = IF from(data) = Panic THEN mat ELSE from(data)
    /\ mret' = from(data)
    /\ mop' = "from"
    /\ marg' = Unit
    /\ moth' = Rows(data)
    /\ UNCHANGED nset
    /\ UNCHANGED svars

\* mret = mat.get(row, col), row and col up to one past the last
GetCell(row, col) ==
    /\ MatrixRunning
    /\ mret' = get(mat, row, col)
    /\ mop' = "get"
    /\ marg' = mat
    /\ moth' = At(row, col)
    /\ UNCHANGED <<mat, nset>>
    /\ UNCHANGED svars

\* mret = mat[(row, col)]
IndexCell(row, col) ==
    /\ MatrixRunning
    /\ mret' = index(mat, row, col)
    /\ mop' = "index"
    /\ marg' = mat
    /\ moth' = At(row, col)
    /\ UNCHANGED <<mat, nset>>
    /\ UNCHANGED svars

\* mat.set(row, col, value), row and col up to one past the last
SetCell(row, col, value) ==
    /\ MatrixRunning
    /\ nset < MaxSets
    /\ LET result == set(mat, row, col, value)
       IN  /\ mat' = IF result = Panic THEN mat ELSE result
           /\ mret' = IF result = Panic THEN Panic ELSE Unit
    /\ mop' = "set"
    /\ marg' = mat
    /\ moth' = At(row, col)
    /\ nset' = nset + 1
    /\ UNCHANGED svars

\* mat[(row, col)] = value
IndexAssign(row, col, value) ==
    /\ MatrixRunning
    /\ nset < MaxSets
    /\ LET result == index_mut(mat, row, col, value)
       IN  /\ mat' = IF result = Panic THEN mat ELSE result
           /\ mret' = IF result = Panic THEN Panic ELSE Unit
    /\ mop' = "index_mut"
    /\ marg' = mat
    /\ moth' = At(row, col)
    /\ nset' = nset + 1
    /\ UNCHANGED svars

\* mret = mat.transpose()
Transpose ==
    /\ MatrixRunning
    /\ Holding
    /\ mret' = transpose(mat)
    /\ mop' = "transpose"
    /\ marg' = mat
    /\ moth' = Unit
    /\ UNCHANGED <<mat, nset>>
    /\ UNCHANGED svars

\* mret = mret.transpose(), on the transpose just returned
TransposeBack ==
    /\ MatrixRunning
    /\ mop = "transpose"
    /\ mret' = transpose(mret)
    /\ mop' = "transpose_back"
    /\ UNCHANGED <<mat, marg, moth, nset>>
    /\ UNCHANGED svars

\* mret = mat.determinant()
Determinant ==
    /\ MatrixRunning
    /\ mret' = determinant(mat)
    /\ mop' = "determinant"
    /\ marg' = mat
    /\ moth' = Unit
    /\ UNCHANGED <<mat, nset>>
    /\ UNCHANGED svars

\* mret = mat <operator> other, for a binary operator: mat is passed by value
MatrixBinary(name, other) ==
    /\ MatrixRunning
    /\ Holding
    /\ mret' = CASE name = "add" -> matrix_add(mat, other)
                  [] name = "sub" -> matrix_sub(mat, other)
                  [] name = "mul" -> matrix_mul(mat, other)
                  [] name = "mul_scalar" -> matrix_mul_scalar(mat, other)
                  [] name = "div_scalar" -> matrix_div_scalar(mat, other)
    /\ mat' = Moved
    /\ mop' = name
    /\ marg' = mat
    /\ moth' = other
    /\ UNCHANGED nset
    /\ UNCHANGED svars

MatrixAdd(other) == MatrixBinary("add", other)

MatrixSub(other) == MatrixBinary("sub", other)

MatrixMul(other) == MatrixBinary("mul", other)

MatrixMulScalar(other) == MatrixBinary("mul_scalar", other)

MatrixDivScalar(other) == MatrixBinary("div_scalar", other)

\* mat <operator>= other, for a compound operator
MatrixCompound(name, result, other) ==
    /\ MatrixRunning
    /\ nset < MaxSets
    /\ mat' = IF result.tag = "Unwound" THEN result.self ELSE result
    /\ mret' = IF result.tag = "Unwound" THEN Panic ELSE Unit
    /\ mop' = name
    /\ marg' = mat
    /\ moth' = other
    /\ nset' = nset + 1
    /\ UNCHANGED svars

MatrixAddAssign(other) ==
    MatrixCompound("add_assign", matrix_add_assign(mat, other), other)

MatrixSubAssign(other) ==
    MatrixCompound("sub_assign", matrix_sub_assign(mat, other), other)

MatrixMulAssign(other) ==
    MatrixCompound("mul_assign", matrix_mul_assign(mat, other), other)

MatrixDivAssign(other) ==
    MatrixCompound("div_assign", matrix_div_assign(mat, other), other)

\* Single cells, transposition and the determinant.
MatrixNext ==
    \/ \E row \in 0..mat.rows, col \in 0..mat.cols, value \in SetValues :
            SetCell(row, col, value)
    \/ Transpose
    \/ TransposeBack
    \/ Determinant

\* Construction and the operators that return a new matrix.
OperatorNext ==
    \/ \E rows \in 0..MaxDim, cols \in 0..MaxDim : New(rows, cols)
    \/ \E data \in RowInputs : From(data)
    \/ Transpose
    \/ \E other \in OtherMatrices : MatrixAdd(other)
    \/ \E other \in OtherMatrices : MatrixSub(other)
    \/ \E other \in OtherMatrices : MatrixMul(other)
    \/ \E other \in OtherScalars : MatrixMulScalar(other)
    \/ \E other \in OtherScalars : MatrixDivScalar(other)

\* Reading and writing single cells.
AccessNext ==
    \/ \E row \in 0..mat.rows, col \in 0..mat.cols : GetCell(row, col)
    \/ \E row \in 0..mat.rows, col \in 0..mat.cols : IndexCell(row, col)
    \/ \E row \in 0..mat.rows, col \in 0..mat.cols, value \in SetValues :
            SetCell(row, col, value)
    \/ \E row \in 0..mat.rows, col \in 0..mat.cols, value \in SetValues :
            IndexAssign(row, col, value)

\* The operations that change a matrix in place.
UpdateNext ==
    \/ \E row \in 0..mat.rows, col \in 0..mat.cols, value \in SetValues :
            SetCell(row, col, value)
    \/ \E row \in 0..mat.rows, col \in 0..mat.cols, value \in SetValues :
            IndexAssign(row, col, value)
    \/ \E other \in OtherMatrices : MatrixAddAssign(other)
    \/ \E other \in OtherMatrices : MatrixSubAssign(other)
    \/ \E other \in OtherScalars : MatrixMulAssign(other)
    \/ \E other \in OtherScalars : MatrixDivAssign(other)

---------------------------------------------------------------------------
(* Specifications. *)

NoScalar ==
    /\ x = Unit
    /\ y = Unit
    /\ op = "init"
    /\ lhs = Unit
    /\ rhs = Unit
    /\ args = <<>>

Init == ScalarInit /\ NoMatrix

Spec == Init /\ [][Next]_vars

ConvertSpecInit == ConvertInit /\ NoMatrix

ConvertSpec == ConvertSpecInit /\ [][ConvertNext]_vars

MatrixSpecInit == MatrixInit /\ NoScalar

MatrixSpec == MatrixSpecInit /\ [][MatrixNext]_vars

OperatorSpecInit == NoMatrix /\ NoScalar

OperatorSpec == OperatorSpecInit /\ [][OperatorNext]_vars

AccessSpecInit == MatrixInit /\ NoScalar

AccessSpec == AccessSpecInit /\ [][AccessNext]_vars

UpdateSpecInit == MatrixInit /\ NoScalar

UpdateSpec == UpdateSpecInit /\ [][UpdateNext]_vars

---------------------------------------------------------------------------
(* Properties of the scalar machine. *)

BinaryOps == {"add", "sub", "mul", "div"}

CompoundOps == {"add_assign", "sub_assign", "mul_assign", "div_assign"}

\* A Rational with a non-zero denominator.
WellFormed(s) == is_rational(s) /\ s.den # 0

\* The fraction n/d, d # 0, is the value the Rational s denotes.
Denotes(s, n, d) == is_rational(s) /\ s.den # 0 /\ s.num * d = n * s.den

\* The binary operator a compound form is defined by.
BinaryValue(name, a, b) ==
    CASE name = "add_assign" -> add(a, b)
      [] name = "sub_assign" -> sub(a, b)
      [] name = "mul_assign" -> mul(a, b)
      [] name = "div_assign" -> div(a, b)

\* r is Real if a or b is, and Rational only if both are.
Promoted(a, b, r) ==
    /\ (is_real(a) \/ is_real(b)) => is_real(r)
    /\ is_rational(r) => (is_rational(a) /\ is_rational(b))

\* C1: every Rational the caller holds or was handed back, after rational(n, d)
\* with d # 0 and after any sequence of add/sub/mul/div and their compound
\* forms, is stored in lowest terms: gcd(numerator, denominator) = 1.
C1_LowestTerms ==
    \A s \in {x, y} : is_rational(s) => gcd(s.num, s.den) = 1

\* C1 witness: a division whose cross-multiplied numerator and denominator
\* share a factor was stored into x.
C1_Witness ==
    /\ op = "div_assign"
    /\ is_rational(lhs) /\ is_rational(rhs) /\ is_rational(x)
    /\ gcd(lhs.num * rhs.den, lhs.den * rhs.num) > 1

\* C2: rational(k*n, k*d) == rational(n, d) for every non-zero k, positive or
\* negative (d # 0).
C2_ScaledEqual ==
    op = "new_rational_scaled" => LinNumEq(y, x)

\* C3: on two Rationals with non-zero denominators, add, sub and mul return a
\* Rational denoting exactly the sum, difference and product of the two
\* fractions, and div by a non-zero Rational one denoting exactly the quotient.
C3_ExactRational ==
    (op \in BinaryOps /\ WellFormed(lhs) /\ WellFormed(rhs)) =>
        /\ op = "add" =>
            Denotes(y, lhs.num * rhs.den + rhs.num * lhs.den, lhs.den * rhs.den)
        /\ op = "sub" =>
            Denotes(y, lhs.num * rhs.den - rhs.num * lhs.den, lhs.den * rhs.den)
        /\ op = "mul" =>
            Denotes(y, lhs.num * rhs.num, lhs.den * rhs.den)
        /\ (op = "div" /\ rhs.num # 0) =>
            Denotes(y, lhs.num * rhs.den, lhs.den * rhs.num)

\* C3 witness: the product of a proper fraction and a Rational was returned,
\* reduced by a common factor of the multiplied numerators and denominators.
C3_Witness ==
    /\ op = "mul"
    /\ WellFormed(lhs) /\ WellFormed(rhs)
    /\ Abs(lhs.den) > 1
    /\ is_rational(y)
    /\ gcd(lhs.num * rhs.num, lhs.den * rhs.den) > 1

\* C4: the result of add, sub, mul and div is Real whenever an operand is Real
\* and Rational only when both are Rational; +=, -=, *=, /= store exactly the
\* value of the binary form.
C4_Promotion ==
    /\ op \in BinaryOps => Promoted(lhs, rhs, y)
    /\ (op \in CompoundOps /\ y # Panic) =>
        /\ Promoted(lhs, rhs, x)
        /\ x = BinaryValue(op, lhs, rhs)

\* C4 witness: a Rational was multiplied in place by a Real and became Real.
C4_Witness ==
    /\ op = "mul_assign"
    /\ is_rational(lhs) /\ is_real(rhs)
    /\ is_real(x)

\* C5: add, sub, mul and div are total: no call panics, a zero Rational
\* divisor with a zero Rational dividend included.
C5_Total ==
    op \in BinaryOps \cup CompoundOps => y # Panic

\* C6: no Rational has denominator zero, so the conversion to i128 never
\* divides by zero.
C6_NonZeroDenominator ==
    /\ \A s \in {x, y} : is_rational(s) => s.den # 0
    /\ op = "into_i128" => y # Panic

---------------------------------------------------------------------------
(* Properties of the matrix machine. *)

IsSquare(m) == m.rows = m.cols

\* The cell holds an integer value: a Rational over 1 or -1, or an integral Real.
IntegerValued(s) ==
    \/ is_rational(s) /\ s.den \in {1, -1}
    \/ is_real(s) /\ s.val.d = 1

\* The integer an integer-valued cell holds.
IntegerOf(s) == IF is_rational(s) THEN s.num * s.den ELSE s.val.sgn * s.val.n

\* The Scalar s denotes the integer v.
DenotesInteger(s, v) ==
    \/ is_rational(s) /\ s.den # 0 /\ s.num = v * s.den
    \/ is_real(s) /\ s.val.d # 0 /\ s.val.sgn * s.val.n = v * s.val.d

ColumnPermutations(n) ==
    {p \in [1..n -> 1..n] : \A a, b \in 1..n : a # b => p[a] # p[b]}

PermutationSign(p, n) ==
    LET inversions == {ab \in (1..n) \X (1..n) : ab[1] < ab[2] /\ p[ab[1]] > p[ab[2]]}
    IN  IF Cardinality(inversions) % 2 = 0 THEN 1 ELSE -1

\* The product of the cells (i, p[i]) for the rows i..n of m, numbered from 1.
RECURSIVE PermutationProduct(_, _, _)
PermutationProduct(m, p, i) ==
    IF i > m.rows THEN 1
    ELSE IntegerOf(get(m, i - 1, p[i] - 1)) * PermutationProduct(m, p, i + 1)

RECURSIVE LeibnizSum(_, _)
LeibnizSum(m, ps) ==
    IF ps = {} THEN 0
    ELSE LET p == CHOOSE q \in ps : TRUE
         IN  PermutationSign(p, m.rows) * PermutationProduct(m, p, 1)
                + LeibnizSum(m, ps \ {p})

\* The reference determinant of a square integer-valued matrix: the Leibniz formula.
Leibniz(m) == LeibnizSum(m, ColumnPermutations(m.rows))

AllCells(m, P(_)) == \A k \in 1..Len(m.data) : P(m.data[k])

\* C7: determinant returns Err(DimensionMismatch) exactly when rows # cols; on
\* a square matrix it returns Ok, and every minor built during the recursion
\* is square, so no recursive call hands back an Err.
C7_DeterminantDimension ==
    mop = "determinant" =>
        /\ (mret = Err(DimensionMismatch)) <=> ~IsSquare(marg)
        /\ IsSquare(marg) => mret.tag = "Ok"
        /\ \A minor \in MinorsBuilt(marg) : IsSquare(minor)

\* C7 witness: determinant returned Ok on a 3 x 3 matrix after building minors.
C7_Witness ==
    /\ mop = "determinant"
    /\ marg.rows = 3 /\ marg.cols = 3
    /\ MinorsBuilt(marg) # {}
    /\ mret.tag = "Ok"

\* C8: on an n x n matrix, n >= 1, of integer-valued cells the value returned
\* by determinant equals the Leibniz determinant; det [[1,2],[3,4]] = -2 and
\* det [[1,2,3],[4,5,6],[7,8,9]] = 0; and on a 2 x 2 matrix the cofactor loop
\* gives the same value as the a*d - b*c shortcut.
C8_DeterminantValue ==
    /\ (/\ mop = "determinant"
        /\ IsSquare(marg) /\ marg.rows >= 1
        /\ AllCells(marg, IntegerValued)) =>
            /\ mret.tag = "Ok"
            /\ DenotesInteger(mret.v, Leibniz(marg))
            /\ marg.rows = 2 =>
                LET general == CofactorLoop(marg, new_real(Zero(1)), 0)
                IN  general.tag = "Ok" /\ DenotesInteger(general.v, Leibniz(marg))
    /\ (mop = "determinant" /\ marg = from(Literal("Real", 2, 2))) =>
            mret = Ok(lnum(as_f64(-2)))
    /\ (mop = "determinant" /\ marg = from(Literal("Real", 3, 3))) =>
            (mret.tag = "Ok" /\ DenotesInteger(mret.v, 0))

\* C8 witness: a non-zero determinant of a 3 x 3 integer-valued matrix.
C8_Witness ==
    /\ mop = "determinant"
    /\ marg.rows = 3 /\ marg.cols = 3
    /\ AllCells(marg, IntegerValued)
    /\ mret.tag = "Ok"
    /\ ~DenotesInteger(mret.v, 0)

\* C9: on a square matrix of any size n >= 1 whose cells are all Rational,
\* determinant returns a Rational.
C9_DeterminantExact ==
    (/\ mop = "determinant"
     /\ IsSquare(marg) /\ marg.rows >= 1
     /\ AllCells(marg, is_rational)) =>
        (mret.tag = "Ok" /\ is_rational(mret.v))

\* C10: the transpose of a rows x cols matrix M is a cols x rows matrix T with
\* T(j, i) = M(i, j), and transposing T gives a matrix == M.
C10_Transpose ==
    /\ mop = "transpose" =>
        /\ mret.tag = "LinMatrix"
        /\ dim(mret) = <<marg.cols, marg.rows>>
        /\ \A i \in 0..(marg.rows - 1), j \in 0..(marg.cols - 1) :
                get(mret, j, i) = get(marg, i, j)
    /\ mop = "transpose_back" =>
        /\ mret.tag = "LinMatrix"
        /\ LinMatrixEq(mret, marg)

\* C10 witness: a 2 x 3 matrix with an overwritten cell was transposed twice.
C10_Witness ==
    /\ mop = "transpose_back"
    /\ marg.rows = 2 /\ marg.cols = 3
    /\ nset = 1
    /\ mret.tag = "LinMatrix"

---------------------------------------------------------------------------
(* Properties of the matrix operators. *)

\* The cell a row-major rows x cols matrix keeps for position (i, j).
CellAt(m, i, j) == m.data[i * m.cols + j + 1]

\* The result r is Ok of a rows x cols matrix with cell (i, j) = value[i, j].
IsOkMatrix(r, rows, cols, value) ==
    /\ r.tag = "Ok"
    /\ r.v.tag = "LinMatrix"
    /\ r.v.rows = rows
    /\ r.v.cols = cols
    /\ Len(r.v.data) = rows * cols
    /\ \A i \in 0..(rows - 1), j \in 0..(cols - 1) :
            CellAt(r.v, i, j) = value[i, j]

SameShape(a, b) == a.rows = b.rows /\ a.cols = b.cols

\* C11: binary matrix add and sub return Err(DimensionMismatch), and do not
\* panic, exactly when the operands differ in rows or in cols; otherwise they
\* return Ok of a matrix of the same shape whose cell (i, j) is the scalar
\* sum (difference) of the operands' cells (i, j).
C11_AddSub ==
    mop \in {"add", "sub"} =>
        IF ~SameShape(marg, moth) THEN mret = Err(DimensionMismatch)
        ELSE LET sum == [i \in 0..(marg.rows - 1), j \in 0..(marg.cols - 1) |->
                            add(CellAt(marg, i, j), CellAt(moth, i, j))]
                 difference ==
                     [i \in 0..(marg.rows - 1), j \in 0..(marg.cols - 1) |->
                            sub(CellAt(marg, i, j), CellAt(moth, i, j))]
             IN  /\ mop = "add" => IsOkMatrix(mret, marg.rows, marg.cols, sum)
                 /\ mop = "sub" =>
                        IsOkMatrix(mret, marg.rows, marg.cols, difference)

\* C11 witness: a Rational matrix of several rows and columns was subtracted
\* from a Real one of the same shape.
C11_Witness ==
    /\ mop = "sub"
    /\ mret.tag = "Ok"
    /\ marg.rows >= 2 /\ marg.cols >= 2 /\ marg.rows # marg.cols
    /\ is_real(CellAt(marg, 1, 1)) /\ is_rational(CellAt(moth, 1, 1))

\* Real(0.0) plus the left-to-right sum of the first n products
\* a(i, k) * b(k, j).
RECURSIVE DotSum(_, _, _, _, _)
DotSum(a, b, i, j, n) ==
    IF n = 0 THEN new_real(Zero(1))
    ELSE add(DotSum(a, b, i, j, n - 1),
             mul(CellAt(a, i, n - 1), CellAt(b, n - 1, j)))

\* C12: matrix x matrix multiply returns Err(DimensionMismatch) exactly when
\* self.cols # other.rows; otherwise Ok of a self.rows x other.cols matrix
\* whose cell (i, j) is Real(0.0) plus the left-to-right sum over k of
\* self(i, k) * other(k, j).
C12_Multiply ==
    mop = "mul" =>
        IF marg.cols # moth.rows THEN mret = Err(DimensionMismatch)
        ELSE LET dot == [i \in 0..(marg.rows - 1), j \in 0..(moth.cols - 1) |->
                            DotSum(marg, moth, i, j, marg.cols)]
             IN  IsOkMatrix(mret, marg.rows, moth.cols, dot)

\* C12 witness: two Rational matrices that are not square were multiplied,
\* each cell of the product a sum of several terms.
C12_Witness ==
    /\ mop = "mul"
    /\ mret.tag = "Ok"
    /\ marg.cols >= 2 /\ marg.rows >= 2 /\ marg.rows # marg.cols
    /\ moth.cols >= 2
    /\ is_rational(CellAt(marg, 0, 0)) /\ is_rational(CellAt(moth, 0, 0))
    /\ is_real(CellAt(mret.v, 1, 1))

AccessOps == {"get", "index", "set", "index_mut"}

\* C13: for every matrix and every (row, col) with row >= rows or
\* col >= cols, get, set and tuple indexing (read and assignment) panic; they
\* never return or overwrite the cell of another position.
C13_IndexValidated ==
    (mop \in AccessOps /\ (moth.row >= marg.rows \/ moth.col >= marg.cols)) =>
        mret = Panic

\* The slice has rows of different lengths.
IsRagged(data) == \E r \in 1..Len(data) : Len(data[r]) # Len(data[1])

\* C14: LinMatrix::from panics whenever its input is empty or has a row
\* shorter or longer than the first; it returns no matrix for a ragged input.
C14_FromRejectsRagged ==
    (mop = "from" /\ (Len(moth.data) = 0 \/ IsRagged(moth.data))) =>
        mret = Panic

\* The matrices a state shows: the one the caller holds and the one the last
\* call returned, bare or inside Ok.
MatricesHeld ==
    (IF mat.tag = "LinMatrix" THEN {mat} ELSE {})
    \cup (IF mret.tag = "LinMatrix" THEN {mret} ELSE {})
    \cup (IF mret.tag = "Ok" THEN {mret.v} ELSE {})

\* C15: every matrix constructed through new, from, transpose and the
\* arithmetic operators has rows >= 1 and cols >= 1.
C15_PositiveDimensions ==
    \A m \in MatricesHeld : m.rows >= 1 /\ m.cols >= 1

UpdateOps ==
    {"set", "index_mut", "add_assign", "sub_assign", "mul_assign", "div_assign"}

\* C16: after construction and after any sequence of set, index assignment,
\* +=, -=, *= scalar and /= scalar (completed or unwound by a panic),
\* data.len() = rows * cols, and rows, cols and the length of the storage are
\* those the matrix had before the operation, hence those of its construction.
C16_StorageFixed ==
    /\ Len(mat.data) = mat.rows * mat.cols
    /\ mop \in UpdateOps =>
        /\ mat.rows = marg.rows
        /\ mat.cols = marg.cols
        /\ Len(mat.data) = Len(marg.data)

\* C16 witness: a compound operator replaced every cell of a matrix of
\* several rows and columns.
C16_Witness ==
    /\ mop \in {"sub_assign", "div_assign"}
    /\ mret = Unit
    /\ mat.rows >= 2 /\ mat.cols >= 2
    /\ \A k \in 1..Len(mat.data) : mat.data[k] # marg.data[k]

\* C18: += and -= with an operand of another shape panic, leaving every cell
\* of self as it was; with an operand of the same shape they leave self equal
\* to the Ok result of binary add / sub on the same operands.
C18_CompoundAddSub ==
    mop \in {"add_assign", "sub_assign"} =>
        IF ~SameShape(marg, moth) THEN mret = Panic /\ mat = marg
        ELSE /\ mret = Unit
             /\ mop = "add_assign" => matrix_add(marg, moth) = Ok(mat)
             /\ mop = "sub_assign" => matrix_sub(marg, moth) = Ok(mat)

\* C18 witness: += panicked on an operand with as many cells as self, in
\* another shape.
C18_Witness ==
    /\ mop = "add_assign"
    /\ mret = Panic
    /\ Len(moth.data) = Len(marg.data)
    /\ Len(marg.data) >= 2

---------------------------------------------------------------------------
(* Properties of the conversions. *)

\* The numerator to_rational tries with the denominator i, and the error of
\* that candidate.
CandidateNumerator(val, i) == as_i128(round(FMul(val, as_f64(i))))

CandidateError(val, i) ==
    FAbs(FSub(val, FDiv(as_f64(CandidateNumerator(val, i)), as_f64(i))))

\* r is the candidate of the smallest denominator among those of 1..=100
\* that achieve the minimal error for val.
SmallestBest(val, r) ==
    /\ is_rational(r)
    /\ r.den \in 1..MaxDenominator
    /\ r.num = CandidateNumerator(val, r.den)
    /\ LET e == [i \in 1..MaxDenominator |-> CandidateError(val, i)]
       IN  /\ \A i \in 1..MaxDenominator : ~FLt(e[i], e[r.den])
           /\ \A i \in 1..(r.den - 1) : FLt(e[r.den], e[i])

\* C17: for a Rational x = n/d in lowest terms with 1 <= d <= 100,
\* to_rational(to_real(x)) is a Rational with denominator in 1..=100 whose
\* value is that of x (float arithmetic exact); to_rational of a finite Real
\* keeps the smallest denominator of 1..=100 that achieves the minimal error,
\* so that to_rational(real(1.5)) == rational(3, 2); to_rational of a
\* Rational is the identity.
C17_ToRational ==
    /\ (/\ op = "round_trip"
        /\ is_rational(lhs)
        /\ gcd(lhs.num, lhs.den) = 1
        /\ lhs.den \in 1..MaxDenominator) =>
            /\ is_rational(y)
            /\ y.den \in 1..MaxDenominator
            /\ y.num * lhs.den = lhs.num * y.den
    /\ (op = "round_trip" /\ ~FIsNaN(to_real(lhs).val)) =>
            SmallestBest(to_real(lhs).val, y)
    /\ (op = "to_rational" /\ is_real(lhs) /\ ~FIsNaN(lhs.val)) =>
            SmallestBest(lhs.val, y)
    /\ (op = "to_rational" /\ lhs = new_real(FNorm(1, 3, 2))) =>
            LinNumEq(y, new_rational(3, 2))
    /\ (op = "to_rational" /\ is_rational(lhs)) => y = lhs

\* C17 witness: a proper fraction whose denominator is the largest one tried
\* was converted to Real and back.
C17_Witness ==
    /\ op = "round_trip"
    /\ is_rational(lhs)
    /\ lhs.den = MaxDenominator
    /\ Abs(lhs.num) > 1
    /\ y = lhs

===========================================================================
